---- MODULE Spec2Model ----
(***************************************************************************)
(* Model of led_pi/gamestate_server_with_leds.py: the LedController        *)
(* (shared mode register, dispatcher thread, renderers) and the            *)
(* EventHandler that drives it from the server's main thread.              *)
(*                                                                         *)
(* Two threads are modelled.  The main thread runs the event handlers      *)
(* (process_events is called from an async endpoint, so handlers never     *)
(* overlap each other) and, at shutdown, stop().  The dispatcher thread    *)
(* runs _loop_manager and the renderer it selects.  Every access to an     *)
(* attribute shared between the two threads is one step; statements that   *)
(* touch only thread-local data are merged into the adjacent step.         *)
(***************************************************************************)
EXTENDS Integers, Sequences, FiniteSets, TLC

(***************************************************************************)
(* Bounds of the model (not program constants).                            *)
(***************************************************************************)
\* events the main thread may apply in one behaviour of Spec
MaxEvents == 2
\* events the main thread may apply in one behaviour of SpecFault and SpecStop
MaxEventsSmall == 1
\* events the main thread may apply in one behaviour of SpecLoc
MaxLocEvents == 3
\* hardware faults (an exception out of a pixel operation) per behaviour
MaxFaults == 1
\* the tick counters of the looping renderers saturate at this value
MaxTicks == 1
\* ticks _anim_walking has run when the wave is observed
MaxWaveTick == 40
\* ticks _anim_levelup has run when the rainbow is observed
MaxStartTick == 85

(***************************************************************************)
(* Program constants.                                                      *)
(***************************************************************************)
LED_COUNT == 50

COLOR_OFF == <<0, 0, 0>>
COLOR_WHITE == <<255, 255, 255>>
COLOR_RED == <<255, 0, 0>>
\* the literal (50, 0, 0) of _anim_damage
COLOR_DIM_RED == <<50, 0, 0>>
\* the literal (100, 150, 150) of _anim_encounter
COLOR_TEAL == <<100, 150, 150>>

(***************************************************************************)
(* Strings the code transforms (names of pokemon and of locations) are     *)
(* sequences of one-character strings, so that lower() and strip() are     *)
(* computed.  The names below are the ones the model uses.                 *)
(***************************************************************************)
s_charmander == <<"c", "h", "a", "r", "m", "a", "n", "d", "e", "r">>
s_squirtle == <<"s", "q", "u", "i", "r", "t", "l", "e">>
s_pallet_town == <<"p", "a", "l", "l", "e", "t", " ", "t", "o", "w", "n">>
s_unknown == <<"u", "n", "k", "n", "o", "w", "n">>
s_route_generic == <<"r", "o", "u", "t", "e", " ", "g", "e", "n", "e", "r", "i", "c">>
s_route_mountain == <<"r", "o", "u", "t", "e", " ", "m", "o", "u", "n", "t", "a", "i", "n">>
s_route_water == <<"r", "o", "u", "t", "e", " ", "w", "a", "t", "e", "r">>
s_route == <<"r", "o", "u", "t", "e">>

\* inputs as a client may send them
in_Charmander == <<"C", "h", "a", "r", "m", "a", "n", "d", "e", "r">>
in_squirtle == <<" ", "s", "q", "u", "i", "r", "t", "l", "e">>
in_PalletTown == <<"P", "a", "l", "l", "e", "t", " ", "T", "o", "w", "n">>
in_Route19 == <<"R", "o", "u", "t", "e", " ", "1", "9">>

UpperChars == <<"A", "B", "C", "D", "E", "F", "G", "H", "I", "J", "K", "L", "M",
                "N", "O", "P", "Q", "R", "S", "T", "U", "V", "W", "X", "Y", "Z">>
LowerChars == <<"a", "b", "c", "d", "e", "f", "g", "h", "i", "j", "k", "l", "m",
                "n", "o", "p", "q", "r", "s", "t", "u", "v", "w", "x", "y", "z">>
Whitespace == {" ", "\t", "\n"}
Digits == <<"0", "1", "2", "3", "4", "5", "6", "7", "8", "9">>

\* str.lower() on one character
LowerChar(c) ==
    IF \E i \in 1..Len(UpperChars) : UpperChars[i] = c
    THEN LowerChars[CHOOSE i \in 1..Len(UpperChars) : UpperChars[i] = c]
    ELSE c

\* str.lower()
Lower(s) == [i \in 1..Len(s) |-> LowerChar(s[i])]

RECURSIVE LStrip(_)
LStrip(s) == IF s # <<>> /\ Head(s) \in Whitespace THEN LStrip(Tail(s)) ELSE s

RECURSIVE RStrip(_)
RStrip(s) ==
    IF s # <<>> /\ s[Len(s)] \in Whitespace
    THEN RStrip(SubSeq(s, 1, Len(s) - 1))
    ELSE s

\* str.strip()
Strip(s) == RStrip(LStrip(s))

\* the Python test "sub in s" on strings
Contains(s, sub) ==
    \E i \in 0..(Len(s) - Len(sub)) : SubSeq(s, i + 1, i + Len(sub)) = sub

IsDigit(c) == \E i \in 1..Len(Digits) : Digits[i] = c
DigitValue(c) == (CHOOSE i \in 1..Len(Digits) : Digits[i] = c) - 1

\* ''.join(filter(str.isdigit, name))
RECURSIVE FilterDigits(_)
FilterDigits(s) ==
    IF s = <<>> THEN <<>>
    ELSE IF IsDigit(Head(s)) THEN <<Head(s)>> \o FilterDigits(Tail(s))
    ELSE FilterDigits(Tail(s))

\* int(num_str) for a non-empty string of digits
RECURSIVE ParseInt(_)
ParseInt(s) ==
    IF s = <<>> THEN 0
    ELSE 10 * ParseInt(SubSeq(s, 1, Len(s) - 1)) + DigitValue(s[Len(s)])

\* dict.get(key, default)
Get(d, k, dflt) == IF k \in DOMAIN d THEN d[k] ELSE dflt

(***************************************************************************)
(* The lookup tables, restricted to the entries the model's inputs reach.  *)
(***************************************************************************)
TypeNames == {"normal", "fire", "water"}

TYPE_COLORS ==
    [t \in TypeNames |->
        CASE t = "normal" -> <<160, 160, 130>>
          [] t = "fire" -> <<255, 80, 0>>
          [] t = "water" -> <<0, 80, 255>>]

PokemonKeys == {s_charmander, s_squirtle}

POKEMON_TYPES ==
    [n \in PokemonKeys |->
        CASE n = s_charmander -> "fire"
          [] n = s_squirtle -> "water"]

LocationKeys ==
    {s_unknown, s_pallet_town, s_route_generic, s_route_mountain, s_route_water}

LOCATION_COLORS ==
    [n \in LocationKeys |->
        CASE n = s_unknown -> <<<<30, 30, 30>>, <<80, 80, 80>>, <<150, 150, 150>>>>
          [] n = s_pallet_town -> <<<<0, 255, 50>>, <<150, 150, 150>>, <<160, 100, 50>>>>
          [] n = s_route_generic -> <<<<0, 180, 0>>, <<180, 140, 20>>, <<0, 80, 0>>>>
          [] n = s_route_mountain -> <<<<150, 100, 50>>, <<100, 100, 100>>, <<0, 150, 0>>>>
          [] n = s_route_water -> <<<<0, 0, 255>>, <<0, 150, 255>>, <<150, 200, 255>>>>]

get_location_colors(location_name) ==
    IF location_name = <<>> THEN LOCATION_COLORS[s_unknown]
    ELSE LET name == Strip(Lower(location_name))
             num_str == FilterDigits(name)
             n == ParseInt(num_str)
         IN IF name \in LocationKeys THEN LOCATION_COLORS[name]
            ELSE IF Contains(name, s_route)
                 THEN IF num_str # <<>> /\ n \in {19, 20, 21}
                      THEN LOCATION_COLORS[s_route_water]
                      ELSE IF num_str # <<>> /\ n \in {3, 4, 9, 10, 23}
                           THEN LOCATION_COLORS[s_route_mountain]
                           ELSE LOCATION_COLORS[s_route_generic]
                 ELSE LOCATION_COLORS[s_unknown]

get_pokemon_type(pokemon_name) ==
    IF pokemon_name = <<>> THEN "normal"
    ELSE LET name == Strip(Lower(pokemon_name))
         IN IF name \in PokemonKeys THEN POKEMON_TYPES[name] ELSE "normal"

(***************************************************************************)
(* The input events (GameEvent with the payload's currentState.inBattle).  *)
(* One record shape for all seven types; unused fields hold a default.     *)
(***************************************************************************)
Ev(type, name, inBattle, delta) ==
    [type |-> type, name |-> name, inBattle |-> inBattle, delta |-> delta]

\* one event of each type: the events that reach set_state, one per mode
Events ==
    { Ev("location_change", in_PalletTown, FALSE, 0),
      Ev("battle_start", <<>>, TRUE, 0),
      Ev("battle_end", <<>>, FALSE, 0),
      Ev("enemy_appeared", in_Charmander, TRUE, 0),
      Ev("enemy_switched", in_squirtle, TRUE, 0),
      Ev("enemy_hp_change", <<>>, TRUE, -5),
      Ev("level_up", <<>>, FALSE, 0) }

\* the events of the overworld: location changes, out of battle and in battle,
\* and the start and the end of a battle
LocEvents ==
    { Ev("location_change", in_PalletTown, FALSE, 0),
      Ev("location_change", in_Route19, TRUE, 0),
      Ev("battle_start", <<>>, TRUE, 0),
      Ev("battle_end", <<>>, FALSE, 0) }

\* two location changes out of battle, to places with different palettes
PaletteScript ==
    << Ev("location_change", in_PalletTown, FALSE, 0),
       Ev("location_change", in_Route19, FALSE, 0) >>

\* location names for get_location_colors: a prefix, a number, a separator and
\* a second number
LocationNames ==
    LET NamePrefixes == {<<>>, <<"R", "o", "u", "t", "e", " ">>, <<"r", "o", "u", "t", "e">>, <<" ", "R", "O", "U", "T", "E", " ">>, <<"C", "a", "v", "e", " ">>}
        NameNumbers ==
            {<<>>, <<"1">>, <<"2">>, <<"3">>, <<"4">>, <<"9">>, <<"1", "0">>, <<"1", "9">>, <<"2", "1">>, <<"2", "3">>, <<"5", "0">>}
        NameSeparators == {<<>>, <<" ", "G", "a", "t", "e", " ">>, <<" ">>}
    IN {p \o a \o s \o b : p \in NamePrefixes, a \in NameNumbers,
                            s \in NameSeparators, b \in NameNumbers}

\* the events of the end-to-end scenario, in order
E2EScript ==
    << Ev("location_change", in_PalletTown, FALSE, 0),
       Ev("battle_start", <<>>, TRUE, 0),
       Ev("enemy_appeared", in_Charmander, TRUE, 0),
       Ev("enemy_hp_change", <<>>, TRUE, -5),
       Ev("enemy_switched", in_squirtle, TRUE, 0) >>

(***************************************************************************)
(* State.                                                                  *)
(***************************************************************************)
VARIABLES
    \* LedController
    current_state,      \* self.current_state
    state_data,         \* self.state_data, a dict
    running,            \* self.running
    mock_mode,          \* self.mock_mode
    last_enemy_type,    \* self.last_enemy_type
    pixels,             \* the strip's buffer (self.pixels[i])
    shown,              \* the frame last committed by pixels.show()
    analog,             \* the colour of an analog fixture; no statement drives one
    \* EventHandler
    current_location,   \* self.current_location; <<>> is None
    current_enemy_type, \* self.current_enemy_type
    \* main thread: position and the arguments of the set_state call in progress
    m_pc, m_new, m_arg, stops,
    \* dispatcher thread: position and locals
    d_pc, chk, d_i, d_old, d_new, d_k, d_colors,
    \* bookkeeping of the set_state calls (identity of each call)
    calls,              \* number of set_state calls entered so far
    m_id, d_id,         \* id of the call in progress on each thread
    modeBy, dataBy,     \* id of the call that wrote current_state / state_data
    lastPub,            \* id of the call that last executed its mode assignment
    lost,               \* ids superseded before the dispatcher dispatched on them
    d_run,              \* id of the write the dispatcher last dispatched on
    d_seen,             \* id of the mode the dispatcher thread last read
    d_pay,              \* id of the payload read for that mode, NoId before the read
    regFight,           \* category of the last FIGHTING request written to the register
    dmgFight,           \* regFight when DAMAGE was last written to the register
    \* environment budget and scenario
    evLeft, faultsLeft, script, trace,
    faultAt             \* the value of calls when the fault was raised, NoId before

ctlVars == <<current_state, state_data, running, mock_mode, last_enemy_type>>
pixVars == <<pixels, shown>>
hdlVars == <<current_location, current_enemy_type>>
mainVars == <<m_pc, m_new, m_arg, stops, m_id>>
dispVars == <<d_pc, chk, d_i, d_old, d_new, d_k, d_colors, d_id>>
callVars == <<calls, modeBy, dataBy, lastPub, lost, regFight, dmgFight, trace>>
readVars == <<d_run, d_seen, d_pay>>
envVars == <<evLeft, faultsLeft, script, faultAt>>

vars == <<ctlVars, pixVars, hdlVars, analog, mainVars, dispVars, callVars, readVars, envVars>>

NoId == -1
Pixel == 0..(LED_COUNT - 1)
Fill(c) == [i \in Pixel |-> c]

\* the positions of the two one-shot sequences
SwitchPcs == {"sw_old", "sw_new", "sw_fill", "sw_r_set", "sw_r_show",
              "sw_e_set", "sw_e_show", "sw_data", "sw_mode"}
DamagePcs == {"dm_fill", "dm_show", "dm_data", "dm_mode"}
OneShotPcs == SwitchPcs \cup DamagePcs

\* the elif chain of _loop_manager, in source order
Chain == <<"WALKING", "ENCOUNTER", "FIGHTING", "SWITCH", "DAMAGE", "LEVEL_UP", "IDLE">>

\* LedController.__init__ with the hardware present, and EventHandler.__init__
InitProgram ==
    /\ current_state = "IDLE"
    /\ state_data = <<>>
    /\ running = TRUE
    /\ mock_mode = FALSE
    /\ last_enemy_type = "normal"
    /\ pixels = Fill(COLOR_OFF)
    /\ shown = Fill(COLOR_OFF)
    /\ analog = COLOR_OFF
    /\ current_location = <<>>
    /\ current_enemy_type = "normal"
    /\ m_pc = "idle" /\ m_new = "IDLE" /\ m_arg = <<>> /\ stops = 0 /\ m_id = NoId
    /\ d_pc = "start" /\ chk = 1 /\ d_i = 0 /\ d_old = "normal" /\ d_new = "normal"
    /\ d_k = 0 /\ d_colors = <<>> /\ d_id = NoId
    /\ calls = 0 /\ modeBy = 0 /\ dataBy = 0 /\ lastPub = 0 /\ lost = {}
    /\ d_run = NoId /\ d_seen = NoId /\ d_pay = NoId
    /\ regFight = "none" /\ dmgFight = "none"
    /\ trace = <<>>
    /\ faultAt = NoId

\* a value of an attribute that __init__ never assigned
Unset == "unset"

\* LedController.__init__ without the hardware.  Two paths lead to mock mode:
\* the driver or the pin is missing (the state attributes are assigned, lines
\* 419-423), or the construction of the strip raises (only mock_mode is
\* assigned, lines 437-440).  On both the thread is never started and
\* last_enemy_type is never assigned.
InitMockProgram ==
    /\ mock_mode = TRUE
    /\ \/ current_state = "IDLE" /\ state_data = <<>> /\ running = TRUE
       \/ current_state = Unset /\ state_data = Unset /\ running = Unset
    /\ last_enemy_type = Unset
    /\ pixels = Fill(COLOR_OFF)
    /\ shown = Fill(COLOR_OFF)
    /\ analog = COLOR_OFF
    /\ current_location = <<>>
    /\ current_enemy_type = "normal"
    /\ m_pc = "idle" /\ m_new = "IDLE" /\ m_arg = <<>> /\ stops = 0 /\ m_id = NoId
    /\ d_pc = "done" /\ chk = 1 /\ d_i = 0 /\ d_old = "normal" /\ d_new = "normal"
    /\ d_k = 0 /\ d_colors = <<>> /\ d_id = NoId
    /\ calls = 0 /\ modeBy = 0 /\ dataBy = 0 /\ lastPub = 0 /\ lost = {}
    /\ d_run = NoId /\ d_seen = NoId /\ d_pay = NoId
    /\ regFight = "none" /\ dmgFight = "none"
    /\ trace = <<>>
    /\ faultAt = NoId

Init == InitProgram /\ evLeft = MaxEvents /\ faultsLeft = 0 /\ script = <<>>

(***************************************************************************)
(* set_state: two assignments, state_data first, current_state second.     *)
(* Each is one step; another thread may run between them.                  *)
(***************************************************************************)
\* (variant) set_state waits while a one-shot sequence is running
set_state_data_locked(data, id) ==
    /\ d_pc \notin OneShotPcs
    /\ state_data' = data
    /\ dataBy' = id

\* self.state_data = data if data else {}
set_state_data(data, id) ==
    /\ state_data' = data
    /\ dataBy' = id

\* (variant) a request is kept, not overwritten, until the dispatcher took it
set_state_mode_keep_pending(new_state, id) ==
    IF lastPub # d_run
    THEN UNCHANGED <<current_state, modeBy>>
    ELSE /\ current_state' = new_state
         /\ modeBy' = id

\* self.current_state = new_state
set_state_mode(new_state, id) ==
    /\ current_state' = new_state
    /\ modeBy' = id

\* what the register shows to a reader: the mode and the fields it reads for it
RegEntry(mode, data, by) ==
    << mode,
       IF mode = "FIGHTING" THEN Get(data, "type", "normal")
       ELSE IF mode = "SWITCH" THEN Get(data, "old", "normal") ELSE "-",
       IF mode = "SWITCH" THEN Get(data, "new", "normal") ELSE "-",
       by >>

\* bookkeeping of a mode assignment by call id (no program state)
Publish(new_state, arg, id, by) ==
    /\ lastPub' = id
    /\ lost' = IF d_run # lastPub THEN lost \cup {lastPub} ELSE lost
    /\ regFight' = IF new_state = "FIGHTING" THEN Get(state_data, "type", "normal") ELSE regFight
    /\ dmgFight' = IF new_state = "DAMAGE" THEN regFight ELSE dmgFight
    /\ trace' = IF script # <<>> \/ trace # <<>>
                THEN Append(trace, RegEntry(new_state, state_data, by))
                ELSE trace

(***************************************************************************)
(* EventHandler: each handler updates its own fields and makes at most one *)
(* set_state call.  Result: the new fields and the call's arguments        *)
(* (<<>> when the handler makes no call).                                  *)
(***************************************************************************)
HandlerResult(loc, enemy, call) == [loc |-> loc, enemy |-> enemy, call |-> call]

\* (variant) the handler records the location only when it changes the mode
handle_location_change_outside_only(e) ==
    HandlerResult(IF ~e.inBattle THEN e.name ELSE current_location, current_enemy_type,
        IF ~e.inBattle
        THEN <<"WALKING", [colors |-> get_location_colors(e.name)]>>
        ELSE <<>>)

\* (variant) the handler requests WALKING whatever the snapshot says
handle_location_change_always(e) ==
    HandlerResult(e.name, current_enemy_type,
        <<"WALKING", [colors |-> get_location_colors(e.name)]>>)

handle_location_change(e) ==
    HandlerResult(e.name, current_enemy_type,
        IF ~e.inBattle
        THEN <<"WALKING", [colors |-> get_location_colors(e.name)]>>
        ELSE <<>>)

handle_battle_start(e) ==
    HandlerResult(current_location, current_enemy_type, <<"ENCOUNTER", <<>>>>)

handle_battle_end(e) ==
    HandlerResult(current_location, current_enemy_type,
        IF current_location # <<>>
        THEN <<"WALKING", [colors |-> get_location_colors(current_location)]>>
        ELSE <<"IDLE", <<>>>>)

handle_enemy_appeared(e) ==
    LET pokemon_type == get_pokemon_type(e.name)
    IN HandlerResult(current_location, pokemon_type,
                     <<"FIGHTING", [type |-> pokemon_type]>>)

handle_enemy_switched(e) ==
    LET old_type == current_enemy_type
        new_type == get_pokemon_type(e.name)
    IN HandlerResult(current_location, new_type,
                     <<"SWITCH", [old |-> old_type, new |-> new_type]>>)

handle_enemy_hp_change(e) ==
    HandlerResult(current_location, current_enemy_type,
        IF e.delta < 0
        THEN <<"DAMAGE", [type |-> current_enemy_type]>>
        ELSE <<>>)

handle_level_up(e) ==
    HandlerResult(current_location, current_enemy_type, <<"LEVEL_UP", <<>>>>)

\* the dispatch of process_events on event.type
process_event(e) ==
    CASE e.type = "location_change" -> handle_location_change(e)
      [] e.type = "battle_start" -> handle_battle_start(e)
      [] e.type = "battle_end" -> handle_battle_end(e)
      [] e.type = "enemy_appeared" -> handle_enemy_appeared(e)
      [] e.type = "enemy_switched" -> handle_enemy_switched(e)
      [] e.type = "enemy_hp_change" -> handle_enemy_hp_change(e)
      [] e.type = "level_up" -> handle_level_up(e)

(***************************************************************************)
(* Main thread.                                                            *)
(***************************************************************************)
\* a handler runs up to the entry of set_state (the handler's own fields are
\* read and written by the main thread only)
ApplyEvent(e) ==
    LET r == process_event(e)
    IN /\ m_pc = "idle"
       /\ stops = 0
       /\ current_location' = r.loc
       /\ current_enemy_type' = r.enemy
       /\ IF r.call # <<>>
          THEN /\ m_pc' = "set_data"
               /\ m_new' = r.call[1]
               /\ m_arg' = r.call[2]
               /\ calls' = calls + 1
               /\ m_id' = calls + 1
          ELSE UNCHANGED <<m_pc, m_new, m_arg, calls, m_id>>
       /\ UNCHANGED <<ctlVars, pixVars, analog, stops, dispVars, readVars,
                      modeBy, dataBy, lastPub, lost, regFight, dmgFight, trace,
                      faultsLeft, faultAt>>

\* an event arrives from the client
Event ==
    /\ evLeft > 0
    /\ \E e \in Events : ApplyEvent(e)
    /\ evLeft' = evLeft - 1
    /\ UNCHANGED script

\* an event of the overworld arrives from the client
LocEvent ==
    /\ evLeft > 0
    /\ \E e \in LocEvents : ApplyEvent(e)
    /\ evLeft' = evLeft - 1
    /\ UNCHANGED script

\* the next event of the end-to-end scenario.  It is applied once the dispatcher
\* has dispatched on the mode the register holds and is in no one-shot sequence.
ScriptedEvent ==
    /\ script # <<>>
    /\ trace = <<>> \/ d_run = lastPub
    /\ d_pc \notin OneShotPcs
    /\ ApplyEvent(Head(script))
    /\ script' = Tail(script)
    /\ UNCHANGED evLeft

MainSetData ==
    /\ m_pc = "set_data"
    /\ set_state_data(m_arg, m_id)
    /\ m_pc' = "set_mode"
    /\ UNCHANGED <<current_state, running, mock_mode, last_enemy_type, pixVars, hdlVars, analog,
                   m_new, m_arg, stops, m_id, dispVars,
                   calls, modeBy, lastPub, lost, regFight, dmgFight, trace,
                   readVars, envVars>>

MainSetMode ==
    /\ m_pc = "set_mode"
    /\ set_state_mode(m_new, m_id)
    /\ Publish(m_new, m_arg, m_id, "handler")
    /\ m_pc' = "idle"
    /\ UNCHANGED <<state_data, running, mock_mode, last_enemy_type, pixVars, hdlVars, analog,
                   m_new, m_arg, stops, m_id, dispVars, calls, dataBy,
                   readVars, envVars>>

\* the calls of stop(): shutdown_event, and the finally clause of __main__
StopCalls == 2

\* (variant) stop() blanks the strip without the test of self.mock_mode
StopNoMockTest ==
    /\ m_pc = "idle"
    /\ stops < StopCalls
    /\ running' = FALSE
    /\ stops' = stops + 1
    /\ m_pc' = "stop_fill"
    /\ UNCHANGED <<current_state, state_data, mock_mode, last_enemy_type, pixVars, hdlVars, analog,
                   m_new, m_arg, m_id, dispVars, callVars, readVars, envVars>>

\* stop(): self.running = False, then the test of self.mock_mode
Stop ==
    /\ m_pc = "idle"
    /\ stops < StopCalls
    /\ running' = FALSE
    /\ stops' = stops + 1
    /\ m_pc' = IF mock_mode THEN "idle" ELSE "stop_fill"
    /\ UNCHANGED <<current_state, state_data, mock_mode, last_enemy_type, pixVars, hdlVars, analog,
                   m_new, m_arg, m_id, dispVars, callVars, readVars, envVars>>

\* stop(): self.pixels.fill(COLOR_OFF)
StopFill ==
    /\ m_pc = "stop_fill"
    /\ pixels' = Fill(COLOR_OFF)
    /\ m_pc' = "stop_show"
    /\ UNCHANGED <<ctlVars, shown, hdlVars, analog, m_new, m_arg, stops, m_id, dispVars,
                   callVars, readVars, envVars>>

\* stop(): self.pixels.show()
StopShow ==
    /\ m_pc = "stop_show"
    /\ shown' = pixels
    /\ m_pc' = "idle"
    /\ UNCHANGED <<ctlVars, pixels, hdlVars, analog, m_new, m_arg, stops, m_id, dispVars,
                   callVars, readVars, envVars>>

(***************************************************************************)
(* Frames.  A colour is an RGB triple.  Where the code computes a colour   *)
(* from the wall clock or from random.randint, the model draws it from a   *)
(* small set; the sine brightness of the walking wave is left out and a    *)
(* walking pixel carries the palette entry the code selects for it.        *)
(***************************************************************************)
\* int(x) of Python for the quotient n / d, d > 0: truncation toward zero
TruncDiv(n, d) == IF n >= 0 THEN n \div d ELSE -((-n) \div d)

\* angles in millionths of a radian
WAVE_DENSITY_U == 600000
STEP_SIZE_U == 150000
HALF_PI_U == 1570796
TWO_PI_U == 6283185

\* (current_colors * 3)[:3] when the palette has fewer than three entries
Pad3(colors) ==
    IF Len(colors) < 3 /\ Len(colors) > 0
    THEN [n \in 1..3 |-> colors[((n - 1) % Len(colors)) + 1]]
    ELSE colors

\* block_idx of _anim_walking for pixel i after k ticks (offset = -0.15 * k)
block_idx(i, k) ==
    LET theta == (i * WAVE_DENSITY_U) - (k * STEP_SIZE_U)
        cycle_index == TruncDiv(theta + HALF_PI_U, TWO_PI_U)
    IN cycle_index % 3

WalkFrame(colors, k) == [i \in Pixel |-> Pad3(colors)[block_idx(i, k) + 1]]

\* factor of _anim_fighting in tenths: its extremes 0.2 and 1.0
FactorSet == {2, 10}
Scale(c, f) == <<(c[1] * f) \div 10, (c[2] * f) \div 10, (c[3] * f) \div 10>>

\* (randint(0, 255), randint(0, 50), 0): the extremes, one draw for the frame
NoiseSet == {<<0, 0, 0>>, <<255, 50, 0>>}

\* (variant) the wheel that starts at red and passes green, then blue
wheel_red_first(pos) ==
    IF pos < 85 THEN <<255 - pos * 3, pos * 3, 0>>
    ELSE IF pos < 170 THEN <<0, 255 - (pos - 85) * 3, (pos - 85) * 3>>
    ELSE <<(pos - 170) * 3, 0, 255 - (pos - 170) * 3>>

wheel(pos) ==
    IF pos < 85 THEN <<pos * 3, 255 - pos * 3, 0>>
    ELSE IF pos < 170 THEN <<255 - (pos - 85) * 3, 0, (pos - 85) * 3>>
    ELSE <<0, (pos - 170) * 3, 255 - (pos - 170) * 3>>

\* the frame of _anim_levelup after k ticks (j = 3 * k); x & 255 is x % 256
pixel_index(i, k) == ((i * 256) \div LED_COUNT) + 3 * k
LevelUpFrame(k) == [i \in Pixel |-> wheel(pixel_index(i, k) % 256)]

\* (variant) the red blink repeated twice
DamageFramesTwoBlinks == <<COLOR_WHITE, COLOR_RED, COLOR_DIM_RED, COLOR_RED, COLOR_DIM_RED>>

\* the seven fills of _anim_damage, in order
DamageFrames ==
    <<COLOR_WHITE, COLOR_RED, COLOR_DIM_RED, COLOR_RED, COLOR_DIM_RED,
      COLOR_RED, COLOR_DIM_RED>>

TypeColor(t) == IF t \in TypeNames THEN TYPE_COLORS[t] ELSE TYPE_COLORS["normal"]

Tick(k) == IF k < MaxTicks THEN k + 1 ELSE k

(***************************************************************************)
(* Dispatcher thread: _loop_manager.                                       *)
(***************************************************************************)
\* the first position of each branch of the elif chain
BranchEntry(mode) ==
    CASE mode = "WALKING" -> "walk_get"
      [] mode = "ENCOUNTER" -> "enc_loop"
      [] mode = "FIGHTING" -> "fight_get"
      [] mode = "SWITCH" -> "sw_old"
      [] mode = "DAMAGE" -> "dm_fill"
      [] mode = "LEVEL_UP" -> "lv_loop"
      [] mode = "IDLE" -> "idle_fill"

\* the positions whose next statement is a pixel operation
PixelOpPcs == {"walk_draw", "walk_show", "enc_a_fill", "enc_a_show", "enc_b_fill",
               "enc_b_show", "enc_c_draw", "enc_c_show", "fight_fill", "fight_show",
               "sw_fill", "sw_r_set", "sw_r_show", "sw_e_set", "sw_e_show",
               "dm_fill", "dm_show", "lv_draw", "lv_show", "idle_fill", "idle_show"}

\* the locals of a renderer are dead once it has returned
ResetLocals ==
    /\ chk' = 1 /\ d_i' = 0 /\ d_old' = "normal" /\ d_new' = "normal"
    /\ d_k' = 0 /\ d_colors' = <<>>

KeepLocals == UNCHANGED <<chk, d_i, d_old, d_new, d_k, d_colors>>

\* a step of the dispatcher thread that touches nothing but its position
Goto(to) ==
    /\ d_pc' = to
    /\ UNCHANGED <<ctlVars, pixVars, hdlVars, analog, mainVars, d_id, callVars, readVars, envVars>>

\* if self.mock_mode: return
DStart ==
    /\ d_pc = "start"
    /\ Goto(IF mock_mode THEN "done" ELSE "while")
    /\ KeepLocals

\* while self.running:
DWhile ==
    /\ d_pc = "while"
    /\ Goto(IF running THEN "chain" ELSE "done")
    /\ ResetLocals

\* one comparison of the elif chain: self.current_state == Chain[chk]
DChain ==
    /\ d_pc = "chain"
    /\ IF current_state = Chain[chk]
       THEN /\ d_pc' = BranchEntry(Chain[chk])
            /\ d_run' = modeBy
            /\ d_seen' = modeBy
            /\ d_pay' = NoId
            /\ d_i' = IF Chain[chk] = "DAMAGE" THEN 1 ELSE 0
            /\ UNCHANGED chk
       ELSE /\ d_pc' = IF chk < Len(Chain) THEN "chain" ELSE "while"
            /\ chk' = IF chk < Len(Chain) THEN chk + 1 ELSE 1
            /\ UNCHANGED <<d_run, d_seen, d_pay, d_i>>
    /\ UNCHANGED <<ctlVars, pixVars, hdlVars, analog, mainVars, d_old, d_new, d_k, d_colors, d_id,
                   callVars, envVars>>

\* (variant) the loop test without "and self.running"
LoopTestModeOnly(at, mode, body) ==
    /\ d_pc = at
    /\ IF current_state = mode
       THEN /\ d_pc' = body
            /\ d_seen' = modeBy
            /\ d_pay' = NoId
       ELSE /\ d_pc' = "while"
            /\ UNCHANGED <<d_seen, d_pay>>
    /\ KeepLocals
    /\ UNCHANGED <<ctlVars, pixVars, hdlVars, analog, mainVars, d_id, callVars, d_run, envVars>>

\* (variant) the loop test without the comparison of the mode
LoopTestRunningOnly(at, mode, body) ==
    /\ d_pc = at
    /\ IF running
       THEN /\ d_pc' = body
            /\ d_seen' = modeBy
            /\ d_pay' = NoId
       ELSE /\ d_pc' = "while"
            /\ UNCHANGED <<d_seen, d_pay>>
    /\ KeepLocals
    /\ UNCHANGED <<ctlVars, pixVars, hdlVars, analog, mainVars, d_id, callVars, d_run, envVars>>

\* the loop test of a looping renderer: self.current_state == mode and self.running
LoopTest(at, mode, body) ==
    /\ d_pc = at
    /\ IF current_state = mode /\ running
       THEN /\ d_pc' = body
            /\ d_seen' = modeBy
            /\ d_pay' = NoId
       ELSE /\ d_pc' = "while"
            /\ UNCHANGED <<d_seen, d_pay>>
    /\ KeepLocals
    /\ UNCHANGED <<ctlVars, pixVars, hdlVars, analog, mainVars, d_id, callVars, d_run, envVars>>

\* a step that stages pixels: pixels.fill(c) or the pixel assignments of a loop
Stage(at, frame, to) ==
    /\ d_pc = at
    /\ pixels' = frame
    /\ d_pc' = to
    /\ UNCHANGED <<ctlVars, shown, hdlVars, analog, mainVars, d_id, callVars, readVars, envVars>>

\* self.pixels.show()
Show(at, to) ==
    /\ d_pc = at
    /\ shown' = pixels
    /\ d_pc' = to
    /\ UNCHANGED <<ctlVars, pixels, hdlVars, analog, mainVars, d_id, callVars, readVars, envVars>>

\* --- WALKING ---
\* colors = self.state_data.get("colors", ...); the call of _anim_walking
WalkGet ==
    /\ d_pc = "walk_get"
    /\ d_colors' = Get(state_data, "colors", LOCATION_COLORS[s_route_generic])
    /\ d_pay' = dataBy
    /\ d_k' = 0
    /\ d_pc' = "walk_loop"
    /\ UNCHANGED <<ctlVars, pixVars, hdlVars, analog, mainVars, chk, d_i, d_old, d_new, d_id,
                   callVars, d_run, d_seen, envVars>>

WalkLoop == LoopTest("walk_loop", "WALKING", "walk_read")

\* (variant) the iteration uses the palette passed to _anim_walking
WalkReadArgument ==
    /\ d_pc = "walk_read"
    /\ d_pc' = "walk_draw"
    /\ UNCHANGED <<ctlVars, pixVars, hdlVars, analog, mainVars, chk, d_i, d_old, d_new, d_k, d_id,
                   d_colors, callVars, readVars, envVars>>

\* current_colors = self.state_data.get("colors", ...)
WalkRead ==
    /\ d_pc = "walk_read"
    /\ d_colors' = Get(state_data, "colors", LOCATION_COLORS[s_route_generic])
    /\ d_pay' = dataBy
    /\ d_pc' = "walk_draw"
    /\ UNCHANGED <<ctlVars, pixVars, hdlVars, analog, mainVars, chk, d_i, d_old, d_new, d_k, d_id,
                   callVars, d_run, d_seen, envVars>>

WalkDraw == Stage("walk_draw", WalkFrame(d_colors, d_k), "walk_show") /\ KeepLocals

\* show, offset -= step_size, sleep
WalkShow ==
    /\ Show("walk_show", "walk_loop")
    /\ d_k' = Tick(d_k)
    /\ UNCHANGED <<chk, d_i, d_old, d_new, d_colors>>

\* --- ENCOUNTER ---
EncLoop == LoopTest("enc_loop", "ENCOUNTER", "enc_a_fill")
EncFillA == Stage("enc_a_fill", Fill(COLOR_TEAL), "enc_a_show") /\ KeepLocals
EncShowA == Show("enc_a_show", "enc_b_fill") /\ KeepLocals
EncFillB == Stage("enc_b_fill", Fill(COLOR_OFF), "enc_b_show") /\ KeepLocals
EncShowB == Show("enc_b_show", "enc_c_draw") /\ KeepLocals
EncDrawC == \E c \in NoiseSet : Stage("enc_c_draw", Fill(c), "enc_c_show") /\ KeepLocals
EncShowC == Show("enc_c_show", "enc_loop") /\ KeepLocals

\* --- FIGHTING ---
\* (variant) the dispatcher does not record self.last_enemy_type
FightGetNoRecord ==
    /\ d_pc = "fight_get"
    /\ d_new' = Get(state_data, "type", "normal")
    /\ d_pay' = dataBy
    /\ d_pc' = "fight_loop"
    /\ UNCHANGED <<ctlVars, pixVars, hdlVars, analog, mainVars,
                   chk, d_i, d_old, d_k, d_colors, d_id, callVars, d_run, d_seen, envVars>>

\* pokemon_type = self.state_data.get("type", "normal");
\* self.last_enemy_type = pokemon_type; the call of _anim_fighting
FightGet ==
    /\ d_pc = "fight_get"
    /\ d_new' = Get(state_data, "type", "normal")
    /\ last_enemy_type' = Get(state_data, "type", "normal")
    /\ d_pay' = dataBy
    /\ d_pc' = "fight_loop"
    /\ UNCHANGED <<current_state, state_data, running, mock_mode, pixVars, hdlVars, analog, mainVars,
                   chk, d_i, d_old, d_k, d_colors, d_id, callVars, d_run, d_seen, envVars>>

FightLoop == LoopTest("fight_loop", "FIGHTING", "fight_fill")
FightFill ==
    \E f \in FactorSet :
        Stage("fight_fill", Fill(Scale(TypeColor(d_new), f)), "fight_show") /\ KeepLocals
FightShow == Show("fight_show", "fight_loop") /\ KeepLocals

\* --- SWITCH ---
\* old = self.state_data.get("old", "normal")
SwitchGetOld ==
    /\ d_pc = "sw_old"
    /\ d_old' = Get(state_data, "old", "normal")
    /\ d_pay' = dataBy
    /\ d_pc' = "sw_new"
    /\ UNCHANGED <<ctlVars, pixVars, hdlVars, analog, mainVars, chk, d_i, d_new, d_k, d_colors, d_id,
                   callVars, d_run, d_seen, envVars>>

\* new = self.state_data.get("new", "normal"); the call of _anim_switch
SwitchGetNew ==
    /\ d_pc = "sw_new"
    /\ d_new' = Get(state_data, "new", "normal")
    /\ d_pay' = dataBy
    /\ d_pc' = "sw_fill"
    /\ UNCHANGED <<ctlVars, pixVars, hdlVars, analog, mainVars, chk, d_i, d_old, d_k, d_colors, d_id,
                   callVars, d_run, d_seen, envVars>>

center == LED_COUNT \div 2

\* self.pixels.fill(c_old)
SwitchFill ==
    /\ Stage("sw_fill", Fill(TypeColor(d_old)), "sw_r_set")
    /\ d_i' = 0
    /\ UNCHANGED <<chk, d_old, d_new, d_k, d_colors>>

\* (variant) the retract step blanks the near pixel only
SwitchRetractSetOneSide ==
    /\ Stage("sw_r_set", [pixels EXCEPT ![d_i] = COLOR_OFF], "sw_r_show")
    /\ KeepLocals

\* retract: self.pixels[i] = COLOR_OFF; self.pixels[LED_COUNT - 1 - i] = COLOR_OFF
SwitchRetractSet ==
    /\ Stage("sw_r_set",
             [pixels EXCEPT ![d_i] = COLOR_OFF, ![LED_COUNT - 1 - d_i] = COLOR_OFF],
             "sw_r_show")
    /\ KeepLocals

\* retract: show and sleep; after the last step, the pause and the expand loop
SwitchRetractShow ==
    /\ Show("sw_r_show", IF d_i + 1 < center THEN "sw_r_set" ELSE "sw_e_set")
    /\ d_i' = IF d_i + 1 < center THEN d_i + 1 ELSE 0
    /\ UNCHANGED <<chk, d_old, d_new, d_k, d_colors>>

\* expand: self.pixels[center + i] = c_new; self.pixels[center - 1 - i] = c_new
SwitchExpandSet ==
    /\ Stage("sw_e_set",
             [pixels EXCEPT ![center + d_i] = TypeColor(d_new),
                            ![center - 1 - d_i] = TypeColor(d_new)],
             "sw_e_show")
    /\ KeepLocals

\* a renderer enters set_state("FIGHTING", {"type": t}): the call gets its id
EnterOwnSetState ==
    /\ calls' = calls + 1
    /\ d_id' = calls + 1

\* expand: show and sleep; after the last step, the call of set_state
SwitchExpandShow ==
    /\ d_pc = "sw_e_show"
    /\ shown' = pixels
    /\ IF d_i + 1 < center
       THEN /\ d_pc' = "sw_e_set"
            /\ d_i' = d_i + 1
            /\ UNCHANGED <<calls, d_id>>
       ELSE /\ d_pc' = "sw_data"
            /\ d_i' = 0
            /\ EnterOwnSetState
    /\ UNCHANGED <<ctlVars, pixels, hdlVars, analog, mainVars, chk, d_old, d_new, d_k, d_colors,
                   modeBy, dataBy, lastPub, lost, regFight, dmgFight, trace,
                   readVars, envVars>>

\* set_state of a renderer: self.state_data = {"type": d_new}
OwnSetData(at, to) ==
    /\ d_pc = at
    /\ set_state_data([type |-> d_new], d_id)
    /\ d_pc' = to
    /\ KeepLocals
    /\ UNCHANGED <<current_state, running, mock_mode, last_enemy_type, pixVars, hdlVars, analog,
                   mainVars, d_id, calls, modeBy, lastPub, lost, regFight, dmgFight, trace,
                   readVars, envVars>>

\* set_state of a renderer: self.current_state = "FIGHTING"; the renderer returns
OwnSetMode(at) ==
    /\ d_pc = at
    /\ set_state_mode("FIGHTING", d_id)
    /\ Publish("FIGHTING", [type |-> d_new], d_id, "renderer")
    /\ d_pc' = "while"
    /\ KeepLocals
    /\ UNCHANGED <<state_data, running, mock_mode, last_enemy_type, pixVars, hdlVars, analog,
                   mainVars, d_id, calls, dataBy, readVars, envVars>>

SwitchSetData == OwnSetData("sw_data", "sw_mode")
SwitchFinish == OwnSetMode("sw_mode")

\* --- DAMAGE ---
DamageFill == Stage("dm_fill", Fill(DamageFrames[d_i]), "dm_show") /\ KeepLocals

\* (variant) the sequence tests the mode after each frame, as a looping renderer does
DamageShowPolling ==
    /\ d_pc = "dm_show"
    /\ shown' = pixels
    /\ IF current_state # "DAMAGE"
       THEN /\ d_pc' = "while"
            /\ UNCHANGED <<d_i, d_new, calls, d_id>>
       ELSE IF d_i < Len(DamageFrames)
            THEN /\ d_pc' = "dm_fill"
                 /\ d_i' = d_i + 1
                 /\ UNCHANGED <<d_new, calls, d_id>>
            ELSE /\ d_pc' = "dm_data"
                 /\ d_i' = 0
                 /\ d_new' = last_enemy_type
                 /\ EnterOwnSetState
    /\ UNCHANGED <<ctlVars, pixels, hdlVars, analog, mainVars, chk, d_old, d_k, d_colors,
                   modeBy, dataBy, lastPub, lost, regFight, dmgFight, trace,
                   readVars, envVars>>

\* show and sleep; after the seventh frame, the call of set_state with
\* {"type": self.last_enemy_type}
DamageShow ==
    /\ d_pc = "dm_show"
    /\ shown' = pixels
    /\ IF d_i < Len(DamageFrames)
       THEN /\ d_pc' = "dm_fill"
            /\ d_i' = d_i + 1
            /\ UNCHANGED <<d_new, calls, d_id>>
       ELSE /\ d_pc' = "dm_data"
            /\ d_i' = 0
            /\ d_new' = last_enemy_type
            /\ EnterOwnSetState
    /\ UNCHANGED <<ctlVars, pixels, hdlVars, analog, mainVars, chk, d_old, d_k, d_colors,
                   modeBy, dataBy, lastPub, lost, regFight, dmgFight, trace,
                   readVars, envVars>>

DamageSetData == OwnSetData("dm_data", "dm_mode")
DamageFinish == OwnSetMode("dm_mode")

\* --- LEVEL_UP ---
LevelLoop == LoopTest("lv_loop", "LEVEL_UP", "lv_draw")
LevelDraw == Stage("lv_draw", LevelUpFrame(d_k), "lv_show") /\ KeepLocals

\* show, j += 3, sleep
LevelShow ==
    /\ Show("lv_show", "lv_loop")
    /\ d_k' = Tick(d_k)
    /\ UNCHANGED <<chk, d_i, d_old, d_new, d_colors>>

\* (variant) the Idle branch commits without blanking the buffer
IdleFillStale ==
    /\ d_pc = "idle_fill"
    /\ Goto("idle_show")
    /\ KeepLocals

\* --- IDLE ---
IdleFill == Stage("idle_fill", Fill(COLOR_OFF), "idle_show") /\ KeepLocals
\* show and sleep
IdleShow == Show("idle_show", "while") /\ KeepLocals

\* --- faults ---
\* a pixel operation raises: control goes to the except clause of _loop_manager
Fault ==
    /\ d_pc \in PixelOpPcs
    /\ faultsLeft > 0
    /\ faultsLeft' = faultsLeft - 1
    /\ faultAt' = calls
    /\ d_pc' = "caught"
    /\ ResetLocals
    /\ UNCHANGED <<ctlVars, pixVars, hdlVars, analog, mainVars, d_id, callVars, readVars,
                   evLeft, script>>

\* (variant) the exception is not caught: the thread ends
CaughtEndsThread ==
    /\ d_pc = "caught"
    /\ Goto("done")
    /\ KeepLocals

\* except Exception: print, sleep; the loop goes on
Caught ==
    /\ d_pc = "caught"
    /\ Goto("while")
    /\ KeepLocals

Walking == WalkGet \/ WalkLoop \/ WalkRead \/ WalkDraw \/ WalkShow
Encounter == EncLoop \/ EncFillA \/ EncShowA \/ EncFillB \/ EncShowB \/ EncDrawC \/ EncShowC
Fighting == FightGet \/ FightLoop \/ FightFill \/ FightShow
Switch ==
    \/ SwitchGetOld \/ SwitchGetNew \/ SwitchFill \/ SwitchRetractSet \/ SwitchRetractShow
    \/ SwitchExpandSet \/ SwitchExpandShow \/ SwitchSetData \/ SwitchFinish
Damage == DamageFill \/ DamageShow \/ DamageSetData \/ DamageFinish
LevelUp == LevelLoop \/ LevelDraw \/ LevelShow
Idle == IdleFill \/ IdleShow

\* the dispatcher thread without the LEVEL_UP renderer
DispatcherBase ==
    DStart \/ DWhile \/ DChain \/ Walking \/ Encounter \/ Fighting \/ Switch \/ Damage \/ Idle

Dispatcher == DispatcherBase \/ LevelUp

SetState == MainSetData \/ MainSetMode

(***************************************************************************)
(* Specifications.                                                         *)
(*   Spec       the register, the dispatcher and the event handlers        *)
(*   SpecLive   Spec with the dispatcher thread scheduled fairly            *)
(*   SpecFault  Spec with faults of the pixel operations, the dispatcher   *)
(*              thread scheduled fairly                                    *)
(*   SpecStop   Spec with stop(), the dispatcher thread scheduled fairly   *)
(*   SpecE2E    the end-to-end scenario: the five events of E2EScript      *)
(*   SpecLoc    the overworld: the events of LocEvents, and the renderers  *)
(*              of the modes they request (Walking, Encounter, Idle)       *)
(*   SpecMock   the controller without the hardware: handlers and stop()   *)
(*   SpecWheel  the dispatcher inside _anim_levelup after 0..MaxStartTick    *)
(*              ticks                                                      *)
(*   SpecPalette  two LocationChange events out of battle, the second      *)
(*              handled while Walking is rendered                          *)
(*   SpecWave   the dispatcher inside _anim_walking after 0..MaxWaveTick     *)
(*              ticks                                                      *)
(*   SpecNames  one LocationChange event, its name drawn from              *)
(*              LocationNames, handled by the main thread                  *)
(***************************************************************************)
Next == Dispatcher \/ Event \/ SetState

Spec == Init /\ [][Next]_vars

\* the dispatcher is a thread of its own and is scheduled again and again
SpecLive == Init /\ [][Next]_vars /\ WF_vars(Dispatcher)

InitFault == InitProgram /\ evLeft = MaxEventsSmall /\ faultsLeft = MaxFaults /\ script = <<>>
NextFault == Next \/ Fault \/ Caught
SpecFault == InitFault /\ [][NextFault]_vars /\ WF_vars(Dispatcher \/ Caught)

InitStop == InitProgram /\ evLeft = MaxEventsSmall /\ faultsLeft = 0 /\ script = <<>>
NextStop == Next \/ Stop \/ StopFill \/ StopShow
SpecStop == InitStop /\ [][NextStop]_vars /\ WF_vars(Dispatcher)

InitE2E == InitProgram /\ evLeft = 0 /\ faultsLeft = 0 /\ script = E2EScript
NextE2E == DispatcherBase \/ ScriptedEvent \/ SetState
SpecE2E == InitE2E /\ [][NextE2E]_vars

InitLoc == InitProgram /\ evLeft = MaxLocEvents /\ faultsLeft = 0 /\ script = <<>>
DispatcherLoc == DStart \/ DWhile \/ DChain \/ Walking \/ Encounter \/ Idle
NextLoc == DispatcherLoc \/ LocEvent \/ SetState
SpecLoc == InitLoc /\ [][NextLoc]_vars /\ WF_vars(DispatcherLoc)

InitMock == InitMockProgram /\ evLeft = MaxEvents /\ faultsLeft = 0 /\ script = <<>>
NextMock == Event \/ SetState \/ Stop
SpecMock == InitMock /\ [][NextMock]_vars

\* the program after one LevelUp event, the dispatcher at the loop test of
\* _anim_levelup with j = 3 * d_k
InitWheel ==
    /\ current_state = "LEVEL_UP" /\ state_data = <<>> /\ running = TRUE
    /\ mock_mode = FALSE /\ last_enemy_type = "normal"
    /\ d_k \in 0..MaxStartTick
    /\ pixels = IF d_k = 0 THEN Fill(COLOR_OFF) ELSE LevelUpFrame(d_k - 1)
    /\ shown = pixels
    /\ analog = COLOR_OFF
    /\ current_location = <<>> /\ current_enemy_type = "normal"
    /\ m_pc = "idle" /\ m_new = "LEVEL_UP" /\ m_arg = <<>> /\ stops = 0 /\ m_id = 1
    /\ d_pc = "lv_loop" /\ chk = 6 /\ d_i = 0 /\ d_old = "normal" /\ d_new = "normal"
    /\ d_colors = <<>> /\ d_id = NoId
    /\ calls = 1 /\ modeBy = 1 /\ dataBy = 1 /\ lastPub = 1 /\ lost = {0}
    /\ d_run = 1 /\ d_seen = 1 /\ d_pay = NoId
    /\ regFight = "none" /\ dmgFight = "none"
    /\ trace = <<>> /\ faultAt = NoId
    /\ evLeft = 0 /\ faultsLeft = 0 /\ script = <<>>
NextWheel == LevelLoop \/ LevelDraw \/ LevelShow
SpecWheel == InitWheel /\ [][NextWheel]_vars

InitPalette == InitProgram /\ evLeft = 0 /\ faultsLeft = 0 /\ script = PaletteScript
NextPalette == DStart \/ DWhile \/ DChain \/ Walking \/ Idle \/ ScriptedEvent \/ SetState
SpecPalette == InitPalette /\ [][NextPalette]_vars

\* the program after LocationChange(Pallet Town), the dispatcher at the loop
\* test of _anim_walking with offset = -0.15 * d_k
InitWave ==
    /\ current_state = "WALKING"
    /\ state_data = [colors |-> LOCATION_COLORS[s_pallet_town]]
    /\ running = TRUE /\ mock_mode = FALSE /\ last_enemy_type = "normal"
    /\ d_k \in 0..MaxWaveTick
    /\ d_colors = LOCATION_COLORS[s_pallet_town]
    /\ pixels = IF d_k = 0 THEN Fill(COLOR_OFF) ELSE WalkFrame(d_colors, d_k - 1)
    /\ shown = pixels
    /\ analog = COLOR_OFF
    /\ current_location = in_PalletTown /\ current_enemy_type = "normal"
    /\ m_pc = "idle" /\ m_new = "WALKING" /\ m_arg = state_data /\ stops = 0 /\ m_id = 1
    /\ d_pc = "walk_loop" /\ chk = 1 /\ d_i = 0 /\ d_old = "normal" /\ d_new = "normal"
    /\ d_id = NoId
    /\ calls = 1 /\ modeBy = 1 /\ dataBy = 1 /\ lastPub = 1 /\ lost = {0}
    /\ d_run = 1 /\ d_seen = 1 /\ d_pay = 1
    /\ regFight = "none" /\ dmgFight = "none"
    /\ trace = <<>> /\ faultAt = NoId
    /\ evLeft = 0 /\ faultsLeft = 0 /\ script = <<>>
NextWave == WalkLoop \/ WalkRead \/ WalkDraw \/ WalkShow
SpecWave == InitWave /\ [][NextWave]_vars

InitNames ==
    /\ InitProgram /\ evLeft = 0 /\ faultsLeft = 0
    /\ \E n \in LocationNames : script = <<Ev("location_change", n, FALSE, 0)>>
NextNames == ScriptedEvent \/ SetState
SpecNames == InitNames /\ [][NextNames]_vars

(***************************************************************************)
(* Claims.                                                                 *)
(***************************************************************************)

\* C1: every read of the register by the dispatcher thread yields a mode and
\* a payload written by one and the same set_state call: whenever the thread
\* has read a payload for the mode it last read, the two carry the same call.
C1_AtomicPairRead == d_pay # NoId => d_pay = d_seen

\* C2: last write wins.  A set_state call whose mode was overwritten by a later
\* call before the dispatcher dispatched on it is never dispatched on: the
\* renderer the dispatcher starts (and whose frames it commits) is never the
\* one of a superseded call.
C2_LastWriteWins == d_run \notin lost

\* two handler calls in a row without a dispatch between them; the dispatcher
\* then runs the renderer of the second and is about to commit a frame of it
C2_Witness ==
    /\ \E c \in lost : c >= 1 /\ c < d_run
    /\ d_run = lastPub
    /\ d_pc \in PixelOpPcs

\* C3: when the Switch(old, new) renderer returns to the dispatcher, the
\* register holds mode FIGHTING with category new.
C3_SwitchEndsFightingNew ==
    [][SwitchFinish =>
         (current_state' = "FIGHTING" /\ Get(state_data', "type", "normal") = d_new)]_vars

\* C4: when the Damage renderer completes, it sets the register to FIGHTING
\* with category last_enemy_type, and that category is the one of the most
\* recent FIGHTING mode written to the register before DAMAGE was requested.
C4_DamageRestoresLastFighting ==
    [][DamageFinish =>
         (/\ current_state' = "FIGHTING"
          /\ d_new = last_enemy_type
          /\ dmgFight # "none" => d_new = dmgFight)]_vars

\* the position of the dispatcher in the program of a one-shot sequence
SeqIndex(pc, i) ==
    CASE pc = "sw_old" -> 0
      [] pc = "sw_new" -> 1
      [] pc = "sw_fill" -> 2
      [] pc = "sw_r_set" -> 3 + 2 * i
      [] pc = "sw_r_show" -> 4 + 2 * i
      [] pc = "sw_e_set" -> 3 + 2 * center + 2 * i
      [] pc = "sw_e_show" -> 4 + 2 * center + 2 * i
      [] pc = "sw_data" -> 3 + 4 * center
      [] pc = "sw_mode" -> 4 + 4 * center
      [] pc = "dm_fill" -> 2 * (i - 1)
      [] pc = "dm_show" -> 2 * (i - 1) + 1
      [] pc = "dm_data" -> 2 * Len(DamageFrames)
      [] pc = "dm_mode" -> 2 * Len(DamageFrames) + 1

SameSequence(p, q) == (p \in SwitchPcs /\ q \in SwitchPcs) \/ (p \in DamagePcs /\ q \in DamagePcs)

InSequence == d_pc \in OneShotPcs

SequenceWaits == d_pc' = d_pc /\ d_i' = d_i /\ shown' = shown /\ pixels' = pixels

SequenceAdvances ==
    /\ SameSequence(d_pc, d_pc')
    /\ SeqIndex(d_pc', d_i') = SeqIndex(d_pc, d_i) + 1

SequenceReturns == d_pc \in {"sw_mode", "dm_mode"} /\ d_pc' = "while"

\* C5: Switch and Damage are not preemptible.  Once the dispatcher is in one
\* of them, every step of the dispatcher is the next step of that sequence
\* (each frame staged and committed in order), whatever set_state calls
\* arrive, and the sequence is left only by its final set_state; no frame is
\* committed by anything but the sequence while it runs.
C5_OneShotNotPreempted ==
    [][InSequence => (SequenceWaits \/ SequenceAdvances \/ SequenceReturns)]_vars

\* a handler's set_state completed while the sequence was running, and the
\* sequence is at its last frame
C5_Witness ==
    /\ lastPub # d_run
    /\ m_pc = "idle"
    /\ \/ d_pc = "sw_e_show" /\ d_i = center - 1 /\ current_state # "SWITCH"
       \/ d_pc = "dm_show" /\ d_i = Len(DamageFrames) /\ current_state # "DAMAGE"

\* C6: a handler's set_state(m) that completed while a Switch or Damage
\* sequence was running takes effect when the sequence finishes: the register
\* then holds m and its payload.
C6_DeferredRequestTakesEffect ==
    [][(SwitchFinish \/ DamageFinish) /\ lastPub # d_run /\ m_pc = "idle" =>
         (current_state' = m_new /\ state_data' = m_arg)]_vars

\* the positions at which the renderer of a mode commits a frame
ShowPcs(mode) ==
    CASE mode = "WALKING" -> {"walk_show"}
      [] mode = "ENCOUNTER" -> {"enc_a_show", "enc_b_show", "enc_c_show"}
      [] mode = "FIGHTING" -> {"fight_show"}
      [] mode = "SWITCH" -> {"sw_r_show", "sw_e_show"}
      [] mode = "DAMAGE" -> {"dm_show"}
      [] mode = "LEVEL_UP" -> {"lv_show"}
      [] mode = "IDLE" -> {"idle_show"}

\* C7: a fault raised inside a renderer or in the Idle branch never ends the
\* dispatcher loop.  The thread ends only when running is false; the except
\* clause leads back to the loop test; from there the dispatcher reads the
\* register again, and once the handlers are quiet it commits a frame of the
\* mode the register holds.
C7_FaultNeverEndsDispatcher ==
    /\ [](d_pc = "done" => ~running)
    /\ [][d_pc = "caught" => d_pc' \in {"caught", "while"}]_vars
    /\ (d_pc = "caught") ~> (d_pc = "chain")
    /\ (faultAt # NoId /\ evLeft = 0 /\ m_pc = "idle") ~> (d_pc \in ShowPcs(current_state))

\* after a fault, the dispatcher has dispatched on a set_state call issued
\* after the fault and is about to commit a frame of its renderer
C7_Witness ==
    /\ faultAt # NoId
    /\ d_run > faultAt
    /\ d_pc \in ShowPcs(current_state)

\* the register's modes of the end-to-end scenario, with the writer of each
E2EModes ==
    << <<"WALKING", "-", "-", "handler">>,
       <<"ENCOUNTER", "-", "-", "handler">>,
       <<"FIGHTING", "fire", "-", "handler">>,
       <<"DAMAGE", "-", "-", "handler">>,
       <<"FIGHTING", "fire", "-", "renderer">>,
       <<"SWITCH", "fire", "water", "handler">>,
       <<"FIGHTING", "water", "-", "renderer">> >>

ScenarioDone ==
    /\ script = <<>>
    /\ m_pc = "idle"
    /\ d_run = lastPub
    /\ d_pc \notin OneShotPcs

\* C8: in the end-to-end scenario the register goes through exactly the modes
\* Walking, Encounter, Fighting(fire), Damage, Fighting(fire), Switch(fire,
\* water), Fighting(water), the two Fighting modes after Damage and Switch
\* written by the renderers.
C8_EndToEnd ==
    /\ Len(trace) <= Len(E2EModes)
    /\ trace = SubSeq(E2EModes, 1, Len(trace))
    /\ ScenarioDone => trace = E2EModes

C8_Witness == ScenarioDone /\ trace = E2EModes /\ d_pc = "fight_show"

\* C9: set_state never blocks: whatever the dispatcher is doing, a handler can
\* enter set_state and each of the two assignments of a call in progress can
\* be taken at once.
C9_SetStateNeverBlocks ==
    /\ m_pc = "idle" /\ evLeft > 0 => \A e \in Events : ENABLED ApplyEvent(e)
    /\ m_pc = "set_data" => ENABLED MainSetData
    /\ m_pc = "set_mode" => ENABLED MainSetMode

\* a call in progress in the middle of a Switch, of a Damage, of a looping
\* renderer's frame
C9_Witness ==
    /\ m_pc = "set_data"
    /\ d_pc \in {"sw_r_show", "dm_show", "walk_show"}

\* C10: after stop() has set running to false the dispatcher loop terminates,
\* and from its loop test it leaves without starting another renderer.
C10_StopTerminates ==
    /\ (~running) ~> (d_pc = "done")
    /\ [][~running /\ d_pc = "while" => d_pc' \in {"while", "done"}]_vars

\* the dispatcher had dispatched on a handler's call, stop() was called, and the
\* thread has ended
C10_Witness == ~running /\ d_pc = "done" /\ d_run >= 1

\* C11: shutdown leaves the strip blank: once stop() has returned and the
\* dispatcher loop has exited, the last committed frame is all (0, 0, 0).
C11_ShutdownLeavesBlank ==
    (stops >= 1 /\ m_pc = "idle" /\ d_pc = "done") => shown = Fill(COLOR_OFF)

\* a step of the main thread (a handler, set_state called by it, or stop())
MainThreadStep == <<m_pc, stops, evLeft, script>>' # <<m_pc, stops, evLeft, script>>

SinkUntouched == pixels' = pixels /\ shown' = shown

\* C12: the output sink is written only by the dispatcher thread: no step of
\* another execution context (the handlers, set_state, stop()) stages a pixel
\* or commits a frame.
C12_SinkOwnedByDispatcher == [][MainThreadStep => SinkUntouched]_vars

\* the dispatcher thread moves on
DispatcherMoves == d_pc' # d_pc

\* C13: the register's initial mode is Idle, and whenever the dispatcher
\* dispatches on Idle it commits, in that same iteration and before it reads
\* the mode again, a frame in which every pixel is (0, 0, 0): from the Idle
\* branch the next steps of the dispatcher are the fill and the commit of an
\* all-blank frame, and only then the loop test.
C13_IdleBlank ==
    /\ current_state = "IDLE"
    /\ [][(d_pc = "idle_fill" /\ DispatcherMoves) =>
            (d_pc' = "idle_show" /\ pixels' = Fill(COLOR_OFF))]_vars
    /\ [][(d_pc = "idle_show" /\ DispatcherMoves) =>
            (d_pc' = "while" /\ shown' = Fill(COLOR_OFF))]_vars

\* Idle requested by a handler is dispatched on while the strip shows the
\* frame of another renderer, and the blank frame is about to be committed
C13_Witness ==
    /\ d_pc = "idle_show"
    /\ d_run >= 1
    /\ shown # Fill(COLOR_OFF)
    /\ pixels = Fill(COLOR_OFF)

LocationEvents == {e \in LocEvents : e.type = "location_change"}

\* what a LocationChange event does to the register's writer: out of battle it
\* starts set_state("WALKING", {"colors": paletteOf(to)}), in battle it starts
\* no call and leaves mode and payload as they are
LocationChangeEffect(e) ==
    IF ~e.inBattle
    THEN /\ m_pc' = "set_data"
         /\ m_new' = "WALKING"
         /\ m_arg' = [colors |-> get_location_colors(e.name)]
    ELSE /\ m_pc' = "idle"
         /\ calls' = calls
         /\ current_state' = current_state
         /\ state_data' = state_data

\* a handler's set_state call completes: the register holds its mode and payload
CallInstalled == current_state' = m_new /\ state_data' = m_arg

\* C14: a LocationChange event sets the register to Walking(paletteOf(to))
\* exactly when the snapshot says not in battle; when it says in battle the
\* register's mode and payload are left unchanged by the event.
C14_LocationChange ==
    /\ [][\A e \in LocationEvents : ApplyEvent(e) => LocationChangeEffect(e)]_vars
    /\ [][MainSetMode => CallInstalled]_vars

\* a LocationChange arrived during a battle: the location is recorded and the
\* register still holds ENCOUNTER
C14_Witness ==
    /\ current_location = in_Route19
    /\ current_state = "ENCOUNTER"
    /\ m_pc = "idle"
    /\ d_pc = "enc_b_show"

BattleEndEvents == {e \in LocEvents : e.type = "battle_end"}

\* what a BattleEnd event requests, given the location the handler knows
BattleEndEffect ==
    /\ m_pc' = "set_data"
    /\ IF current_location # <<>>
       THEN /\ m_new' = "WALKING"
            /\ m_arg' = [colors |-> get_location_colors(current_location)]
       ELSE /\ m_new' = "IDLE"
            /\ m_arg' = <<>>

\* the location the handler knows is the destination of the last LocationChange
LocationTracked(e) ==
    current_location' = IF e.type = "location_change" THEN e.name ELSE current_location

\* C15: a BattleEnd event sets the register to Walking(paletteOf(location))
\* when a location is known and to Idle when none is known, the location being
\* the destination of the most recent LocationChange event, one that arrived
\* during the battle included.
C15_BattleEnd ==
    /\ [][\A e \in LocEvents : ApplyEvent(e) => LocationTracked(e)]_vars
    /\ [][\A e \in BattleEndEvents : ApplyEvent(e) => BattleEndEffect]_vars
    /\ [][MainSetMode => CallInstalled]_vars

\* BattleStart, LocationChange(to Route 19) in battle, BattleEnd: the walking
\* renderer runs with the water palette of Route 19
C15_Witness ==
    /\ current_state = "WALKING"
    /\ state_data = [colors |-> LOCATION_COLORS[s_route_water]]
    /\ d_colors = LOCATION_COLORS[s_route_water]
    /\ d_pc = "walk_show"

\* the positions of the main thread inside set_state; stop() in mock mode is
\* one step and leaves the thread idle
MockPcs == {"idle", "set_data", "set_mode"}

\* C16: without the pixel hardware the controller still constructs; every
\* later handler call, set_state and stop() completes (no step waits, none is
\* stuck at a pixel operation); and no pixel is ever written or flushed: the
\* dispatcher thread does not run and the strip is never touched.
C16_MockMode ==
    /\ mock_mode
    /\ d_pc = "done"
    /\ m_pc \in MockPcs
    /\ pixels = Fill(COLOR_OFF) /\ shown = Fill(COLOR_OFF)
    /\ m_pc = "set_data" => ENABLED MainSetData
    /\ m_pc = "set_mode" => ENABLED MainSetMode
    /\ (m_pc = "idle" /\ stops < StopCalls) => ENABLED Stop

\* in mock mode a handler's set_state and both calls of stop() have completed;
\* last_enemy_type was never assigned
C16_Witness ==
    /\ mock_mode
    /\ stops = StopCalls
    /\ running = FALSE
    /\ current_state = "FIGHTING"
    /\ last_enemy_type = Unset
    /\ m_pc = "idle"

\* a renderer of a single-colour mode (Idle, Fighting, Damage) commits a frame
UniformFrameCommitted == IdleShow \/ FightShow \/ DamageShow

\* C17: both outputs follow the same mode: whenever a renderer commits a
\* pixel frame, the analog fixture is driven for the same mode in the same
\* tick (Idle: off; Damage: the flash colours; Fighting: the same scaled base
\* colour as the pixels).
C17_BothOutputsFollow == [][UniformFrameCommitted => analog' = shown'[0]]_vars

\* the digits at the end of a name
RECURSIVE TrailingDigits(_)
TrailingDigits(s) ==
    IF s # <<>> /\ IsDigit(s[Len(s)])
    THEN TrailingDigits(SubSeq(s, 1, Len(s) - 1)) \o <<s[Len(s)]>>
    ELSE <<>>

\* paletteOf with the route number read from the trailing digits of the name
PaletteByTrailingDigits(location_name) ==
    IF location_name = <<>> THEN LOCATION_COLORS[s_unknown]
    ELSE LET name == Strip(Lower(location_name))
             num_str == TrailingDigits(name)
             n == ParseInt(num_str)
         IN IF name \in LocationKeys THEN LOCATION_COLORS[name]
            ELSE IF ~Contains(name, s_route) THEN LOCATION_COLORS[s_unknown]
            ELSE IF num_str # <<>> /\ n \in {19, 20, 21} THEN LOCATION_COLORS[s_route_water]
            ELSE IF num_str # <<>> /\ n \in {3, 4, 9, 10, 23}
                 THEN LOCATION_COLORS[s_route_mountain]
            ELSE LOCATION_COLORS[s_route_generic]

\* C18: paletteOf classifies a route name by its trailing digits (19, 20, 21:
\* water; 3, 4, 9, 10, 23: mountain; any other or no number: generic route);
\* an empty or unmatched name yields the unknown palette.  Stated of the
\* palette a LocationChange event requests.
C18_PaletteByTrailingDigits ==
    m_pc = "set_data" => m_arg = [colors |-> PaletteByTrailingDigits(current_location)]

\* the wheel position of pixel i in the frame _anim_levelup has staged
Position(i) == pixel_index(i, d_k) % 256

Channels(c) == c[1] \in 0..255 /\ c[2] \in 0..255 /\ c[3] \in 0..255

\* a colour on the linear arc that leaves primary `from` towards primary `to`,
\* t steps of 3 from its start (channels: 1 red, 2 green, 3 blue)
OnArc(c, from, to, t) == c[to] = 3 * t /\ c[from] = 255 - 3 * t /\ c[1] + c[2] + c[3] = 255

\* every staged pixel lies on the wheel that starts at primary a and passes
\* b, then c, in three 85-wide arcs
WheelOrder(a, b, c) ==
    \A i \in Pixel :
        LET p == Position(i)
        IN /\ Channels(pixels[i])
           /\ p < 85 => OnArc(pixels[i], a, b, p)
           /\ (85 <= p /\ p < 170) => OnArc(pixels[i], b, c, p - 85)
           /\ 170 <= p => OnArc(pixels[i], c, a, p - 170)

\* C19 (as stated): wheel(pos) returns three channels in 0..255 and runs
\* red -> green -> blue -> red in three 85-wide linear arcs, wheel(0) being
\* pure red.
C19_WheelRedGreenBlue == d_pc = "lv_show" => WheelOrder(1, 2, 3)

\* C19 (amended): wheel(pos) returns three channels in 0..255 and runs
\* green -> red -> blue -> green in three 85-wide linear arcs: wheel(0) is pure
\* green, the colour moves to red over 0..84, to blue over 85..169 and back to
\* green over 170..255.
C19_WheelGreenRedBlue == d_pc = "lv_show" => WheelOrder(2, 1, 3)

\* a staged frame whose first pixel is at position 0 and which has pixels on
\* all three arcs
C19_Witness ==
    /\ d_pc = "lv_show" /\ Position(0) = 0 /\ pixels[0] = <<0, 255, 0>>
    /\ \E i \in Pixel : Position(i) = 85 + 17 /\ pixels[i] = <<204, 0, 51>>
    /\ \E i \in Pixel : Position(i) >= 170

LoopingModes == {"IDLE", "WALKING", "ENCOUNTER", "FIGHTING", "LEVEL_UP"}

\* the renderer of looping mode m commits a frame
CommitBy(m) ==
    CASE m = "IDLE" -> IdleShow
      [] m = "WALKING" -> WalkShow
      [] m = "ENCOUNTER" -> EncShowA \/ EncShowB \/ EncShowC
      [] m = "FIGHTING" -> FightShow
      [] m = "LEVEL_UP" -> LevelShow

\* a set_state call has set the register to m outside the one-shot sequences
\* and no further call follows: every event is handled, the call is complete.
\* Once true it stays true: nothing is left that writes the register.
LastRequest(m) ==
    /\ current_state = m /\ modeBy = calls /\ calls >= 1
    /\ m_pc = "idle" /\ evLeft = 0
    /\ d_pc \notin OneShotPcs

\* C20: if the register is set to a looping mode m while a looping renderer
\* or Idle is active and no further set_state follows, then, the dispatcher
\* being scheduled fairly, the active renderer returns and the renderer of m
\* eventually commits a frame.
C20_LoopingModeRendered ==
    \A m \in LoopingModes : <>[]LastRequest(m) => []<><<CommitBy(m)>>_vars

\* Walking was dispatched on, LevelUp was requested while it ran, and the
\* rainbow's first frame is committed
C20_Witness ==
    /\ current_location # <<>> /\ current_state = "LEVEL_UP"
    /\ calls = 2 /\ modeBy = 2 /\ 1 \notin lost /\ d_run = 2
    /\ evLeft = 0 /\ m_pc = "idle"
    /\ d_pc = "lv_loop" /\ shown = LevelUpFrame(0)

\* the looping renderer at work; "-" outside the looping renderers
RenderedMode ==
    CASE d_pc \in {"walk_loop", "walk_read", "walk_draw", "walk_show"} -> "WALKING"
      [] d_pc \in {"enc_loop", "enc_a_fill", "enc_a_show", "enc_b_fill", "enc_b_show",
                   "enc_c_draw", "enc_c_show"} -> "ENCOUNTER"
      [] d_pc \in {"fight_loop", "fight_fill", "fight_show"} -> "FIGHTING"
      [] d_pc \in {"lv_loop", "lv_draw", "lv_show"} -> "LEVEL_UP"
      [] OTHER -> "-"

LoopTestPcs == {"walk_loop", "enc_loop", "fight_loop", "lv_loop"}

\* a looping renderer commits a frame although the register holds another mode
StaleCommit ==
    RenderedMode # "-" /\ current_state # RenderedMode /\ d_pc \in ShowPcs(RenderedMode) /\ DispatcherMoves

\* the renderer's next step is the test of the mode
RechecksNext == d_pc' \in LoopTestPcs

\* C21: every looping renderer re-checks the mode once per committed frame
\* and returns on a mismatch; for Encounter too the granularity is one
\* phase, so that after the register has left Encounter the renderer commits
\* at most one further phase frame: a frame committed after the register left
\* is followed by the test of the mode, not by the next phase.
C21_OneFrameAfterLeaving == [][StaleCommit => RechecksNext]_vars

\* the Walking renderer dispatched on the first request is running and the
\* second set_state(Walking, palette) has been entered
SecondWalkingRequest == d_run = 1 /\ RenderedMode = "WALKING" /\ calls = 2

\* the renderer neither returns nor restarts: it stays in its loop and its
\* wave offset is not reset
WalkingKeepsRunning == RenderedMode' = "WALKING" /\ d_pc' # "walk_get" /\ d_k' >= d_k

\* the read of the palette that follows the write of the second payload
ReadAfterWrite == d_pc = "walk_read" /\ dataBy = 2 /\ DispatcherMoves

\* C22: while the mode is Walking, set_state(Walking, newPalette) does not make
\* the Walking renderer return or restart: it keeps running with its wave
\* offset unchanged, and the first frame it computes after the write uses
\* newPalette.
C22_LivePaletteSwap ==
    /\ [][SecondWalkingRequest => WalkingKeepsRunning]_vars
    /\ [][ReadAfterWrite => d_pay' = 2]_vars
    /\ [](d_pc = "walk_show" /\ d_pay = 2
            => pixels = WalkFrame(LOCATION_COLORS[s_route_water], d_k))

\* the renderer dispatched on Pallet Town's request stages a frame with the
\* water route's palette one tick on
C22_Witness ==
    /\ d_pc = "walk_show" /\ d_run = 1 /\ d_pay = 2 /\ d_k = 1 /\ m_pc = "idle"
    /\ shown = WalkFrame(LOCATION_COLORS[s_pallet_town], 0)
    /\ pixels = WalkFrame(LOCATION_COLORS[s_route_water], 1)
    /\ pixels # WalkFrame(LOCATION_COLORS[s_pallet_town], 1)

LastCategoryChanges == last_enemy_type' # last_enemy_type

\* the step of the dispatch on Fighting that reads the category
FightingDispatch == d_pc = "fight_get" /\ d_pc' = "fight_loop"

\* C23: lastCategory is "normal" until the first Fighting dispatch; each
\* dispatch on Fighting stores the category it dispatches on in lastCategory
\* before the Fighting renderer commits a frame; no other operation
\* (set_state, the other renderers, the event handlers) changes lastCategory.
C23_LastCategory ==
    /\ last_enemy_type = "normal"
    /\ [][LastCategoryChanges => FightingDispatch]_vars
    /\ [](RenderedMode = "FIGHTING" => last_enemy_type = d_new)
    /\ [](d_pc = "fight_show"
            => \E f \in FactorSet : pixels = Fill(Scale(TypeColor(last_enemy_type), f)))

\* the Fighting renderer is about to commit its first fire-coloured frame
C23_Witness ==
    /\ d_pc = "fight_show" /\ last_enemy_type = "fire" /\ current_enemy_type = "fire"
    /\ pixels = Fill(Scale(TYPE_COLORS["fire"], 10)) /\ shown = Fill(COLOR_OFF)

\* frame f after retract step k: pixels 0..k and N-1-k..N-1 off, the others in
\* old's colour
Retracted(f, k) ==
    \A i \in Pixel :
        IF i <= k \/ i >= LED_COUNT - 1 - k
        THEN f[i] = COLOR_OFF
        ELSE f[i] = TypeColor(d_old) /\ f[i] # COLOR_OFF

\* frame f after expand step k: pixels center-1-k..center+k in new's colour,
\* the others off
Expanded(f, k) ==
    \A i \in Pixel :
        IF center - 1 - k <= i /\ i <= center + k
        THEN f[i] = TypeColor(d_new) /\ f[i] # COLOR_OFF
        ELSE f[i] = COLOR_OFF

RetractCommit == d_pc = "sw_r_show" /\ DispatcherMoves
ExpandCommit == d_pc = "sw_e_show" /\ DispatcherMoves
RetractStepInRange == d_i \in 0..(center - 1) /\ center = 25 /\ LED_COUNT = 50

\* C24: in Switch(old, new) on the 50-pixel strip with center 25, the frame
\* committed by retract step k (0 <= k < 25) has exactly the pixels 0..k and
\* N-1-k..N-1 off and all others in old's colour, so every pixel is off when
\* the retract phase ends; the frame committed by expand step k has exactly the
\* pixels center-1-k..center+k in new's colour and the rest off, so all N
\* pixels show new's colour when the sequence completes.
C24_SwitchFrames ==
    /\ [][RetractCommit => (RetractStepInRange /\ Retracted(shown', d_i))]_vars
    /\ [][ExpandCommit => (RetractStepInRange /\ Expanded(shown', d_i))]_vars
    /\ []((d_pc = "sw_e_set" /\ d_i = 0) => shown = Fill(COLOR_OFF))
    /\ [](d_pc \in {"sw_data", "sw_mode"} => shown = Fill(TypeColor(d_new)))

\* half-way through the expansion from fire to water
C24_Witness ==
    /\ d_pc = "sw_e_set" /\ d_i = 12 /\ d_old = "fire" /\ d_new = "water"
    /\ shown[center - 12] = TYPE_COLORS["water"] /\ shown[center + 11] = TYPE_COLORS["water"]
    /\ shown[center - 13] = COLOR_OFF /\ shown[center + 12] = COLOR_OFF

\* the n-th frame of Damage: white, then bright red and dim red in turn
FlashColour(n) ==
    IF n = 1 THEN <<255, 255, 255>> ELSE IF n % 2 = 0 THEN <<255, 0, 0>> ELSE <<50, 0, 0>>

DamageFramePcs == {"dm_fill", "dm_show"}
DamageCommit == d_pc = "dm_show" /\ DispatcherMoves
DamageEntered == d_pc \notin DamageFramePcs /\ d_pc' \in DamageFramePcs
DamageFrameStep == d_pc \in DamageFramePcs /\ DispatcherMoves

\* the n-th commit shows the n-th colour and is followed by frame n + 1, the
\* seventh by the renderer's set_state
CommitsInOrder ==
    /\ d_i \in 1..7 /\ shown' = Fill(FlashColour(d_i))
    /\ IF d_i < 7 THEN d_pc' = "dm_fill" /\ d_i' = d_i + 1 ELSE d_pc' = "dm_data"

\* up to the seventh commit the renderer leaves the register alone
RegisterKept ==
    /\ current_state' = current_state /\ state_data' = state_data
    /\ d_pc' \in DamageFramePcs \/ (d_pc = "dm_show" /\ d_i = 7)

\* C25: a Damage sequence that runs without a fault commits exactly seven
\* frames in this order: all white, then three times (all bright red
\* (255,0,0), all dim red (50,0,0)); the write of Fighting(lastCategory) to
\* the register happens only after the seventh frame, never earlier.
C25_DamageSevenFrames ==
    /\ [][DamageEntered => (d_pc' = "dm_fill" /\ d_i' = 1)]_vars
    /\ [][DamageCommit => CommitsInOrder]_vars
    /\ [][DamageFrameStep => RegisterKept]_vars
    /\ [](d_pc \in {"dm_data", "dm_mode"} => shown = Fill(FlashColour(7)))
    /\ [][(d_pc = "dm_mode" /\ DispatcherMoves) => current_state' = "FIGHTING"]_vars

\* the seventh frame is committed and the renderer is about to write Fighting
C25_Witness ==
    /\ d_pc = "dm_mode" /\ shown = Fill(<<50, 0, 0>>) /\ current_state = "DAMAGE"
    /\ state_data = [type |-> last_enemy_type] /\ m_pc = "idle"

\* floor((theta + pi/2) / (2*pi)) mod 3 for pixel i after k ticks; \div rounds
\* toward minus infinity
FloorIndex(i, k) ==
    ((((i * WAVE_DENSITY_U) - (k * STEP_SIZE_U)) + HALF_PI_U) \div TWO_PI_U) % 3

\* C26: in Walking, for every pixel i and every offset -0.15 * k the renderer
\* reaches, the palette entry used is the one at index
\* floor((theta + pi/2) / (2*pi)) mod 3 with theta = 0.6 * i + offset, also
\* when theta + pi/2 is negative, and that index lies in {0, 1, 2}.
C26_WaveFloorIndex ==
    d_pc = "walk_show" =>
        \A i \in Pixel : /\ block_idx(i, d_k) \in {0, 1, 2}
                         /\ pixels[i] = Pad3(d_colors)[FloorIndex(i, d_k) + 1]

\* no set_state call is in progress on either thread
NoCallInProgress == m_pc = "idle" /\ d_pc \notin {"sw_data", "sw_mode", "dm_data", "dm_mode"}

\* C27: when a handler's set_state and the final set_state of Switch or
\* Damage run concurrently, then once both calls have completed the register
\* holds the mode and the payload of one and the same call, never the mode of
\* one and the payload of the other.
C27_NoMixedPair == NoCallInProgress => modeBy = dataBy

\* the Damage sequence requested by the handler's last call completes
RequestedDamageCompletes == DamageFinish /\ m_new = "DAMAGE" /\ m_pc = "idle"

\* C28: whenever a Damage sequence triggered by an EnemyHpChange event
\* completes, the category of the Fighting mode it restores equals the
\* category of the current enemy as the event handler tracks it, the value
\* the handler passed as the payload of Damage.
C28_DamageRestoresCurrentEnemy ==
    [][RequestedDamageCompletes => d_new = Get(m_arg, "type", "normal")]_vars

====
